---------------------------- MODULE Spec2Model ----------------------------
(***************************************************************************)
(* Model of the adonix newsletter service:                                 *)
(*   - database/models.ts: the static table of model handles, each bound   *)
(*     to the storage collection `${group}_${collection}`;                 *)
(*   - services/newsletter/newsletter-router.ts: the CORS origin gate and  *)
(*     the POST /newsletter/subscribe/ handler.                            *)
(* newsletter-router.ts holds two definitions of the router: lines 10-48   *)
(* (no CORS middleware) and lines 65-120 (cors(corsOptions) installed      *)
(* before the route).  The variable `router` says which one is mounted.    *)
(***************************************************************************)
EXTENDS Naturals, Sequences, FiniteSets, TLC

VARIABLES
    table,      \* the static initialisers of class Models, in source order
    loaded,     \* how many static initialisers have run
    Models,     \* handle name -> model (class, schemaOptions)
    router,     \* 1: router of lines 10-48, 2: router of lines 65-120
    storage,    \* storage collection identifier -> sequence of documents
    pc,         \* request -> position of its handler
    req,        \* request -> [headers, body] as received
    res,        \* request -> response sent (status 0: none yet)
    calls       \* request -> number of findOneAndUpdate calls issued

vars == <<table, loaded, Models, router, storage, pc, req, res, calls>>

-----------------------------------------------------------------------------
(* Bounds *)

\* Number of subscribe requests in one run.
MaxRequests == 2

Requests == 1 .. MaxRequests

\* Values a request may carry.
OriginValues == {"", "https://hackillinois.org", "https://evil.example.com"}

\* A JSON body: a field may be missing, empty or set.
Body(listName, emailAddress) ==
    [f \in {g \in {"listName"} : listName # <<>>}
            \cup {g \in {"emailAddress"} : emailAddress # <<>>} |->
        IF f = "listName" THEN listName[1] ELSE emailAddress[1]]

\* <<>>: the field is missing; <<v>>: the field holds v.
Bodies ==
    { Body(<<>>, <<"a@hackillinois.org">>),
      Body(<<"">>, <<"a@hackillinois.org">>),
      Body(<<"testingList">>, <<>>),
      Body(<<"testingList">>, <<"">>),
      Body(<<"testingList">>, <<"a@hackillinois.org">>),
      Body(<<"testingList">>, <<"b@hackillinois.org">>),
      Body(<<"otherList">>, <<"a@hackillinois.org">>) }

\* The headers of a request: Origin may be missing.
Headers == UNION {[D -> OriginValues] : D \in SUBSET {"origin"}}

-----------------------------------------------------------------------------
(* database/models.ts *)

\* generateConfig(collection)
generateConfig(collection) ==
    [schemaOptions |-> [collection |-> collection, versionKey |-> FALSE]]

\* Faulty variant: the group is dropped from the collection name.
getModelNoGroup(of, group, collection) ==
    [of |-> of, options |-> generateConfig(collection)]

\* getModel(of, group, collection)
getModel(of, group, collection) ==
    [of |-> of, options |-> generateConfig(group \o "_" \o collection)]

\* The static fields of class Models, in source order: name, class, group, collection.
Reg(name, group, collection) == [name |-> name, group |-> group, collection |-> collection]

ModelsTable ==
    << Reg("AttendeeMetadata", "attendee", "metadata"),
       Reg("AttendeeProfile", "attendee", "profile"),
       Reg("AttendeeFollowing", "attendee", "following"),
       Reg("AuthInfo", "auth", "info"),
       Reg("AdmissionDecision", "admission", "decision"),
       Reg("Event", "event", "events"),
       Reg("EventAttendance", "event", "attendance"),
       Reg("EventFollowers", "event", "followers"),
       Reg("NewsletterSubscription", "newsletter", "subscriptions"),
       Reg("RegistrationApplication", "registration", "applications"),
       Reg("ShopItem", "shop", "items"),
       Reg("UserInfo", "user", "users"),
       Reg("UserAttendance", "user", "attendance"),
       Reg("StaffShift", "staff", "shift") >>

\* The storage collection a handle is bound to.
CollectionOf(model) == model.options.schemaOptions.collection

\* Handles registered so far.
Handles == DOMAIN Models

Started == loaded = Len(table)

-----------------------------------------------------------------------------
(* services/newsletter/newsletter-router.ts *)

\* Config.NEWSLETTER_CORS.PROD_REGEX / DEPLOY_REGEX: each rule by the origins it matches.
PROD_REGEX == {"https://hackillinois.org"}
DEPLOY_REGEX == {"https://deploy-preview-1--hackillinois.netlify.app"}

allowedOrigins == <<PROD_REGEX, DEPLOY_REGEX>>

\* regexPasses(target, patterns): some pattern, tested in order, matches the target.
regexPasses(target, patterns) ==
    \E i \in 1 .. Len(patterns) : target \in patterns[i]

\* Faulty variant: a missing Origin header is not let through.
corsOriginStrict(headers) ==
    "origin" \in DOMAIN headers /\ regexPasses(headers["origin"], allowedOrigins)

\* corsOptions.origin: TRUE for callback(null, true), FALSE for callback(new Error(..)).
corsOrigin(headers) ==
    \/ "origin" \notin DOMAIN headers
    \/ headers["origin"] = ""
    \/ regexPasses(headers["origin"], allowedOrigins)

\* Faulty variant: cors() installed without corsOptions lets every origin through.
corsAllowAll(headers) == "next"

\* newsletterRouter.use(cors(corsOptions)): "next" runs the route, "error" is next(err).
cors(headers) == IF corsOrigin(headers) THEN "next" ELSE "error"

\* !x for x : string | undefined read from field f
Falsy(m, f) == f \notin DOMAIN m \/ m[f] = ""

\* Faulty variant: only missing fields are refused, empty strings pass.
invalidParamsMissingOnly(body) ==
    "listName" \notin DOMAIN body \/ "emailAddress" \notin DOMAIN body

\* if (!listName || !emailAddress)
invalidParams(body) == Falsy(body, "listName") \/ Falsy(body, "emailAddress")

\* Faulty variant: $push instead of $addToSet.
push(arr, x) == Append(arr, x)

\* $addToSet on an array field
addToSet(arr, x) ==
    IF \E i \in 1 .. Len(arr) : arr[i] = x THEN arr ELSE Append(arr, x)

\* Faulty variant: $set instead of $addToSet, the subscribers of the list are overwritten.
findOneAndUpdateSet(docs, listName, emailAddress) ==
    LET found == {i \in 1 .. Len(docs) : docs[i].newsletterId = listName}
    IN  IF found # {}
        THEN LET i == CHOOSE j \in found : \A k \in found : j <= k
             IN  [docs EXCEPT ![i].subscribers = <<emailAddress>>]
        ELSE Append(docs, [newsletterId |-> listName, subscribers |-> <<emailAddress>>])

\* Faulty variant: upsert is off, a list that is not found is not created.
findOneAndUpdateNoUpsert(docs, listName, emailAddress) ==
    LET found == {i \in 1 .. Len(docs) : docs[i].newsletterId = listName}
    IN  IF found # {}
        THEN LET i == CHOOSE j \in found : \A k \in found : j <= k
             IN  [docs EXCEPT ![i].subscribers = addToSet(@, emailAddress)]
        ELSE docs

\* Faulty variant: the list is created empty, the email is left for a later write.
findOneAndUpdateCreateEmpty(docs, listName, emailAddress) ==
    LET found == {i \in 1 .. Len(docs) : docs[i].newsletterId = listName}
    IN  IF found # {}
        THEN LET i == CHOOSE j \in found : \A k \in found : j <= k
             IN  [docs EXCEPT ![i].subscribers = addToSet(@, emailAddress)]
        ELSE Append(docs, [newsletterId |-> listName, subscribers |-> <<>>])

\* Faulty variant: the filter is empty, the first document is updated whatever its key.
findOneAndUpdateAnyList(docs, listName, emailAddress) ==
    IF Len(docs) > 0
    THEN [docs EXCEPT ![1].subscribers = addToSet(@, emailAddress)]
    ELSE Append(docs, [newsletterId |-> listName, subscribers |-> <<emailAddress>>])

\* findOneAndUpdate({newsletterId: listName}, {$addToSet: {subscribers: e}}, {upsert: true})
findOneAndUpdate(docs, listName, emailAddress) ==
    LET found == {i \in 1 .. Len(docs) : docs[i].newsletterId = listName}
    IN  IF found # {}
        THEN LET i == CHOOSE j \in found : \A k \in found : j <= k
             IN  [docs EXCEPT ![i].subscribers = addToSet(@, emailAddress)]
        ELSE Append(docs, [newsletterId |-> listName, subscribers |-> <<emailAddress>>])

\* newsletter-db.ts: the schema of a subscription list, whose key is unique.
uniqueNewsletterId == TRUE

\* Faulty variant: a plain insert, whatever the collection already holds.
engineInsertAlways(docs, listName, emailAddress) ==
    Append(docs, [newsletterId |-> listName, subscribers |-> <<emailAddress>>])

\* The insert phase of an upsert whose find phase matched no document.  With
\* the unique key an insert that meets a document created meanwhile is a
\* duplicate-key conflict, and the engine runs the operation again as an update.
engineInsert(docs, listName, emailAddress) ==
    IF uniqueNewsletterId
    THEN findOneAndUpdate(docs, listName, emailAddress)
    ELSE Append(docs, [newsletterId |-> listName, subscribers |-> <<emailAddress>>])

\* error-handler.ts ErrorHandler: the response for an error passed to next().
ErrorHandler(error) ==
    IF error.name = "RouterError"
    THEN [status |-> error.statusCode, body |-> [error |-> error.message]]
    ELSE [status |-> 500, body |-> [error |-> "InternalError"]]

RouterError(statusCode, message) ==
    [name |-> "RouterError", statusCode |-> statusCode, message |-> message]

NoResponse == [status |-> 0]

\* Faulty variant: the await is missing, the handler goes on while the upsert is in flight.
settledNoAwait(p) == p \in {"await", "resolved"}

\* await: the handler resumes once the promise of findOneAndUpdate has resolved.
settled(p) == p = "resolved"

-----------------------------------------------------------------------------
(* Startup: the static initialisers of class Models run in order. *)

LoadModel ==
    /\ loaded < Len(table)
    /\ LET r == table[loaded + 1]
           m == getModel(r.name, r.group, r.collection)
       IN  /\ Models' = [h \in Handles \cup {r.name} |->
                            IF h = r.name THEN m ELSE Models[h]]
           /\ storage' = [c \in DOMAIN storage \cup {CollectionOf(m)} |->
                            IF c \in DOMAIN storage THEN storage[c] ELSE <<>>]
    /\ loaded' = loaded + 1
    /\ UNCHANGED <<table, router, pc, req, res, calls>>

-----------------------------------------------------------------------------
(* POST /newsletter/subscribe/ *)

\* The request arrives and runs synchronously through cors(corsOptions) and the
\* handler up to its await.
Subscribe(r, headers, body) ==
    /\ Started
    /\ pc[r] = "idle"
    /\ \A q \in Requests : q < r => pc[q] # "idle"
    /\ req' = [req EXCEPT ![r] = [headers |-> headers, body |-> body]]
    /\ IF router = 2 /\ cors(headers) = "error"
       THEN \* callback(new Error("Not allowed by CORS")): cors calls next(err)
            /\ pc' = [pc EXCEPT ![r] = "corsError"]
            /\ res' = [res EXCEPT ![r] =
                          ErrorHandler([name |-> "Error", message |-> "Not allowed by CORS"])]
            /\ UNCHANGED calls
       ELSE IF invalidParams(body)
       THEN \* return next(new RouterError(400, "InvalidParams"))
            /\ pc' = [pc EXCEPT ![r] = "invalidParams"]
            /\ res' = [res EXCEPT ![r] = ErrorHandler(RouterError(400, "InvalidParams"))]
            /\ UNCHANGED calls
       ELSE \* await Models.NewsletterSubscription.findOneAndUpdate(...)
            /\ pc' = [pc EXCEPT ![r] = "await"]
            /\ calls' = [calls EXCEPT ![r] = @ + 1]
            /\ UNCHANGED res
    /\ UNCHANGED <<table, loaded, Models, router, storage>>

\* The find phase of the upsert matches no document: the engine goes on to insert.
UpsertMiss(r) ==
    /\ pc[r] = "await"
    /\ \A i \in 1 .. Len(storage[CollectionOf(Models["NewsletterSubscription"])]) :
          storage[CollectionOf(Models["NewsletterSubscription"])][i].newsletterId
              # req[r].body["listName"]
    /\ pc' = [pc EXCEPT ![r] = "insert"]
    /\ UNCHANGED <<table, loaded, Models, router, storage, req, res, calls>>

\* Faulty variant: the storage operations are served one at a time in arrival
\* order, an operation waits for every earlier one that is still pending.
UpsertDoneSerial(r) ==
    /\ pc[r] \in {"await", "insert"}
    /\ \A q \in Requests : q < r => pc[q] \notin {"await", "insert"}
    /\ LET c == CollectionOf(Models["NewsletterSubscription"])
           listName == req[r].body["listName"]
           emailAddress == req[r].body["emailAddress"]
       IN  IF pc[r] = "await"
           THEN /\ \E i \in 1 .. Len(storage[c]) : storage[c][i].newsletterId = listName
                /\ storage' = [storage EXCEPT ![c] =
                                   findOneAndUpdate(@, listName, emailAddress)]
           ELSE storage' = [storage EXCEPT ![c] = engineInsert(@, listName, emailAddress)]
    /\ pc' = [pc EXCEPT ![r] = "resolved"]
    /\ UNCHANGED <<table, loaded, Models, router, req, res, calls>>

\* The storage engine applies the upsert: the update of the document it found
\* (one atomic document operation), or the insert after a find that matched
\* nothing; the promise resolves.
UpsertDone(r) ==
    /\ pc[r] \in {"await", "insert"}
    /\ LET c == CollectionOf(Models["NewsletterSubscription"])
           listName == req[r].body["listName"]
           emailAddress == req[r].body["emailAddress"]
       IN  IF pc[r] = "await"
           THEN /\ \E i \in 1 .. Len(storage[c]) : storage[c][i].newsletterId = listName
                /\ storage' = [storage EXCEPT ![c] =
                                   findOneAndUpdate(@, listName, emailAddress)]
           ELSE storage' = [storage EXCEPT ![c] = engineInsert(@, listName, emailAddress)]
    /\ pc' = [pc EXCEPT ![r] = "resolved"]
    /\ UNCHANGED <<table, loaded, Models, router, req, res, calls>>

\* The handler resumes after the await: res.status(200).send({status: "Success"}).
Respond(r) ==
    /\ settled(pc[r])
    /\ res' = [res EXCEPT ![r] = [status |-> 200, body |-> [status |-> "Success"]]]
    /\ pc' = [pc EXCEPT ![r] = "sent"]
    /\ UNCHANGED <<table, loaded, Models, router, storage, req, calls>>

\* The storage engine raises an error: nothing is written, the promise rejects
\* and the await throws.  The handler has no try/catch and never calls
\* next(error), so the promise it returned rejects.  A router that watches the
\* returned promise hands the error to the ErrorHandler; one that does not
\* (express 4) leaves the rejection unhandled and the request without a response.
UpsertFail(r) ==
    /\ pc[r] \in {"await", "insert"}
    /\ \/ /\ pc' = [pc EXCEPT ![r] = "unhandledRejection"]
          /\ UNCHANGED res
       \/ /\ pc' = [pc EXCEPT ![r] = "storageError"]
          /\ res' = [res EXCEPT ![r] =
                        ErrorHandler([name |-> "MongoError", message |-> "storage"])]
    /\ UNCHANGED <<table, loaded, Models, router, storage, req, calls>>

-----------------------------------------------------------------------------

InitRest ==
    /\ loaded = 0
    /\ Models = << >>
    /\ storage = << >>
    /\ router \in {1, 2}
    /\ pc = [r \in Requests |-> "idle"]
    /\ req = [r \in Requests |-> [headers |-> << >>, body |-> << >>]]
    /\ res = [r \in Requests |-> NoResponse]
    /\ calls = [r \in Requests |-> 0]

Init == table = ModelsTable /\ InitRest

Next ==
    \/ LoadModel
    \/ \E r \in Requests, h \in Headers, b \in Bodies : Subscribe(r, h, b)
    \/ \E r \in Requests : UpsertMiss(r)
    \/ \E r \in Requests : UpsertDone(r)
    \/ \E r \in Requests : UpsertFail(r)
    \/ \E r \in Requests : Respond(r)

Spec == Init /\ [][Next]_vars

\* The same program with one more static initialiser added to class Models.
ExtraRegs ==
    { Reg("EventMetadata", "event", "metadata"),
      Reg("UserMetadata", "attendee", "metadata"),
      Reg("NewsletterArchive", "newsletter", "subscriptions") }

InitReg ==
    /\ table \in {ModelsTable} \cup {Append(ModelsTable, x) : x \in ExtraRegs}
    /\ InitRest

SpecReg == InitReg /\ [][Next]_vars

\* The event loop runs the continuation of a resolved await.
FairSpec == Spec /\ \A r \in Requests : WF_vars(Respond(r))

\* The storage operation of the first request may hang for ever; the storage
\* engine goes on with the operation of every other request, and the event loop
\* runs the continuations.
HangSpec ==
    /\ Spec
    /\ \A r \in Requests : WF_vars(Respond(r))
    /\ \A r \in Requests \ {1} : WF_vars(UpsertMiss(r) \/ UpsertDone(r))

-----------------------------------------------------------------------------
(* Vocabulary of the properties *)

\* The documents of the collection the NewsletterSubscription handle writes.
Subscriptions(st) == st[CollectionOf(Models["NewsletterSubscription"])]

\* The documents keyed by list name L, and the emails subscribed to L.
ListsOf(docs, L) == {i \in 1 .. Len(docs) : docs[i].newsletterId = L}
SubscribersOf(docs, L) ==
    UNION {{docs[i].subscribers[k] : k \in 1 .. Len(docs[i].subscribers)} :
              i \in ListsOf(docs, L)}

Arrived(r) == pc[r] # "idle"
ListName(r) == req[r].body["listName"]
Email(r) == req[r].body["emailAddress"]
\* Both fields are present and non-empty.
ValidRequest(r) ==
    /\ Arrived(r)
    /\ {"listName", "emailAddress"} \subseteq DOMAIN req[r].body
    /\ ListName(r) # "" /\ Email(r) # ""
\* The upsert of request r has been applied by the storage engine.
UpsertCompleted(r) == pc[r] \in {"resolved", "sent"}
Success == [status |-> 200, body |-> [status |-> "Success"]]
InvalidParams400 == [status |-> 400, body |-> [error |-> "InvalidParams"]]

\* Request r takes its upsert step in this transition.
UpsertStep(r) == pc[r] \in {"await", "insert"} /\ pc'[r] = "resolved"

-----------------------------------------------------------------------------
(* C1: two subscribe requests for the same list with distinct emails, whose    *)
(* upserts both completed in whatever order and interleaving, both answer      *)
(* success and the list holds both emails: no update is lost.                  *)
C1_NoLostUpdate ==
    \A r1, r2 \in Requests :
        (/\ r1 # r2
         /\ ValidRequest(r1) /\ ValidRequest(r2)
         /\ UpsertCompleted(r1) /\ UpsertCompleted(r2)
         /\ ListName(r1) = ListName(r2)
         /\ Email(r1) # Email(r2))
        => /\ {Email(r1), Email(r2)} \subseteq
                  SubscribersOf(Subscriptions(storage), ListName(r1))
           /\ (pc[r1] = "sent" => res[r1] = Success)
           /\ (pc[r2] = "sent" => res[r2] = Success)

\* Two requests for one list were in flight together, both upserts are applied
\* and neither response has been sent yet.
C1_Witness ==
    \E r1, r2 \in Requests :
        /\ r1 # r2
        /\ pc[r1] = "resolved" /\ pc[r2] = "resolved"
        /\ ListName(r1) = ListName(r2)
        /\ Email(r1) # Email(r2)
        /\ SubscribersOf(Subscriptions(storage), ListName(r1)) = {Email(r1), Email(r2)}

(* C2: an upsert whose email is already subscribed to its list leaves the      *)
(* stored lists exactly as they were, and the request still answers success.   *)
C2_Idempotent ==
    [][\A r \in Requests :
          /\ (UpsertStep(r)
                /\ Email(r) \in SubscribersOf(Subscriptions(storage), ListName(r)))
             => storage' = storage
          /\ (pc[r] = "resolved" /\ pc'[r] # "resolved") => res'[r] = Success]_vars

\* The same pair was subscribed twice, both calls answered success, and the
\* list holds the email once.
C2_Witness ==
    \E r1, r2 \in Requests :
        /\ r1 < r2
        /\ pc[r1] = "sent" /\ pc[r2] = "sent"
        /\ req[r1].body = req[r2].body
        /\ res[r1] = Success /\ res[r2] = Success
        /\ \E i \in 1 .. Len(Subscriptions(storage)) :
              Subscriptions(storage)[i] =
                  [newsletterId |-> ListName(r1), subscribers |-> <<Email(r1)>>]

(* C3: an upsert for a list name that has no list yet adds exactly one          *)
(* document, keyed by that name with the email as its only subscriber; every    *)
(* other document is kept.                                                      *)
C3_CreatesList ==
    [][\A r \in Requests :
          (UpsertStep(r) /\ ListsOf(Subscriptions(storage), ListName(r)) = {})
          => /\ Subscriptions(storage') =
                    Append(Subscriptions(storage),
                           [newsletterId |-> ListName(r), subscribers |-> <<Email(r)>>])
             /\ Len(Subscriptions(storage')) = Len(Subscriptions(storage)) + 1]_vars

\* A second list was created beside an existing one by a request that succeeded.
C3_Witness ==
    \E r \in Requests :
        /\ pc[r] = "sent" /\ res[r] = Success
        /\ Len(Subscriptions(storage)) = 2
        /\ Subscriptions(storage)[2] =
               [newsletterId |-> ListName(r), subscribers |-> <<Email(r)>>]

(* C4 as stated: every request with listName or emailAddress missing or empty   *)
(* ends with the InvalidParams 400 response and issues no storage operation.    *)
C4_Original ==
    \A r \in Requests :
        (Arrived(r) /\ ~ValidRequest(r))
        => res[r] = InvalidParams400 /\ calls[r] = 0

(* C4 amended: every request that the CORS gate lets through and whose          *)
(* listName or emailAddress is missing or empty ends with the InvalidParams     *)
(* 400 response, issues no storage operation and leaves the lists unchanged.    *)
C4_InvalidParams ==
    /\ [](\A r \in Requests :
            (Arrived(r) /\ ~ValidRequest(r) /\ pc[r] # "corsError")
            => /\ res[r] = InvalidParams400
               /\ calls[r] = 0
               /\ pc[r] = "invalidParams")
    /\ [][\A r \in Requests :
            (pc[r] = "idle" /\ pc'[r] = "invalidParams") => storage' = storage]_vars

\* A request with an empty listName was refused while a list already existed.
C4_Witness ==
    \E r \in Requests :
        /\ pc[r] = "invalidParams"
        /\ "listName" \in DOMAIN req[r].body /\ ListName(r) = ""
        /\ res[r] = InvalidParams400
        /\ Len(Subscriptions(storage)) > 0

(* Vocabulary of the gate properties, stated on the request as received. *)
OriginAbsent(r) == "origin" \notin DOMAIN req[r].headers
OriginEmpty(r) == ~OriginAbsent(r) /\ req[r].headers["origin"] = ""
OriginMatchesRule(r) ==
    /\ ~OriginAbsent(r)
    /\ \E i \in 1 .. Len(allowedOrigins) : req[r].headers["origin"] \in allowedOrigins[i]
\* The router with the CORS gate is mounted and has handled request r.
Gated(r) == router = 2 /\ Arrived(r)

(* C5 as stated: the gate lets a request through exactly when its Origin        *)
(* header is absent or matches at least one rule.                               *)
C5_Original ==
    \A r \in Requests :
        Gated(r) => (pc[r] # "corsError" <=> (OriginAbsent(r) \/ OriginMatchesRule(r)))

(* C5 amended: the gate lets a request through exactly when its Origin header   *)
(* is absent, is the empty string, or matches at least one rule; a non-empty    *)
(* origin that matches no rule is rejected.                                     *)
C5_OriginGate ==
    \A r \in Requests :
        Gated(r) => (pc[r] # "corsError"
                        <=> (OriginAbsent(r) \/ OriginEmpty(r) \/ OriginMatchesRule(r)))

\* The gate has rejected one request and let through one without Origin, one
\* with an empty Origin or one with a matching Origin.
C5_Witness ==
    /\ router = 2
    /\ \E r \in Requests : pc[r] = "corsError"
    /\ \E r \in Requests :
          Arrived(r) /\ pc[r] # "corsError" /\ (OriginEmpty(r) \/ OriginMatchesRule(r))

\* The origin of request r is present, non-empty and matches no rule.
OriginRejected(r) ==
    Gated(r) /\ ~OriginAbsent(r) /\ ~OriginEmpty(r) /\ ~OriginMatchesRule(r)

(* C6: a request whose origin the gate rejects never runs the route handler:    *)
(* it issues no storage operation, stays at the CORS error whatever its body    *)
(* is, and its arrival leaves every stored list as it was.                      *)
C6_GateShortCircuits ==
    /\ [](\A r \in Requests :
            OriginRejected(r) => calls[r] = 0 /\ pc[r] = "corsError")
    /\ [][\A r \in Requests :
            (pc[r] = "idle" /\ OriginRejected(r)') => storage' = storage]_vars

\* A request with a rejected origin and a valid body is done and its list
\* does not exist.
C6_Witness ==
    \E r \in Requests :
        /\ OriginRejected(r)
        /\ ValidRequest(r)
        /\ pc[r] = "corsError"
        /\ ListsOf(Subscriptions(storage), ListName(r)) = {}

(* C7: the storage identifiers of the handles registered from the Models       *)
(* table are pairwise distinct.                                                 *)
C7_DistinctIdentifiers ==
    Cardinality({CollectionOf(Models[table[i].name]) : i \in 1 .. loaded}) = loaded

\* Every static initialiser of the table has run.
C7_Witness ==
    /\ Started
    /\ table = ModelsTable
    /\ Cardinality(Handles) = Len(ModelsTable)
    /\ CollectionOf(Models["NewsletterSubscription"]) = "newsletter_subscriptions"

\* A success response exists only once the upsert has completed, with the email
\* in the list; no response is sent while the upsert is in flight.
SuccessOnlyAfterUpsert ==
    \A r \in Requests :
        /\ (pc[r] = "sent" => res[r] = Success)
        /\ (res[r].status = 200
               => /\ res[r] = Success
                  /\ ValidRequest(r)
                  /\ pc[r] = "sent"
                  /\ Email(r) \in SubscribersOf(Subscriptions(storage), ListName(r)))
        /\ (pc[r] \in {"await", "insert", "resolved"} => res[r] = NoResponse)

C9_Original ==
    \A r \in Requests :
        pc[r] \in {"unhandledRejection", "storageError"}
        => res[r].status = 500 /\ calls[r] = 1

EmailsOf(doc) == {doc.subscribers[k] : k \in 1 .. Len(doc.subscribers)}
\* The documents keyed by list name L, in stored order.
DocsOf(docs, L) == SelectSeq(docs, LAMBDA d : d.newsletterId = L)
\* The list names that have a document.
KeysOf(docs) == {docs[i].newsletterId : i \in 1 .. Len(docs)}

(* C11: the stored lists only grow: once the service is started, every step     *)
(* keeps every list that exists and keeps every email in the list it is in.     *)
C11_OnlyGrows ==
    [][Started =>
          \A L \in KeysOf(Subscriptions(storage)) :
              /\ L \in KeysOf(Subscriptions(storage'))
              /\ SubscribersOf(Subscriptions(storage), L)
                     \subseteq SubscribersOf(Subscriptions(storage'), L)]_vars

\* A list has grown to two subscribers and both requests have answered.
C11_Witness ==
    /\ \A r \in Requests : pc[r] = "sent"
    /\ \E i \in 1 .. Len(Subscriptions(storage)) :
          Len(Subscriptions(storage)[i].subscribers) = 2

(* C12: a request issues at most one storage operation, and that operation      *)
(* shows as one step: any step that changes the stored lists is the upsert of   *)
(* one request and leaves its list with exactly the email added, and no list    *)
(* without a subscriber is ever stored.                                         *)
C12_SingleAtomicUpsert ==
    /\ [](\A r \in Requests : calls[r] <= 1)
    /\ [](Started => \A i \in 1 .. Len(Subscriptions(storage)) :
                        Subscriptions(storage)[i].subscribers # <<>>)
    /\ [][(Started /\ storage' # storage) =>
             \E r \in Requests :
                 /\ UpsertStep(r)
                 /\ SubscribersOf(Subscriptions(storage'), ListName(r)) =
                        SubscribersOf(Subscriptions(storage), ListName(r)) \cup {Email(r)}]_vars

\* A request created its list in one step: the upsert is applied, the response
\* is not sent yet, and the list holds exactly the email.
C12_Witness ==
    \E r \in Requests :
        /\ pc[r] = "resolved" /\ calls[r] = 1
        /\ SubscribersOf(Subscriptions(storage), ListName(r)) = {Email(r)}

Pending(r) == pc[r] \in {"await", "insert"}

(* C14: while the storage operation of the first request hangs, the storage     *)
(* operation of every other request still runs to its end and the request gets  *)
(* its success response (or ends with the error of its own operation).          *)
C14_HangDoesNotBlock ==
    \A r \in Requests \ {1} :
        Pending(r) ~> \/ pc[r] = "sent" /\ res[r] = Success
                      \/ pc[r] \in {"unhandledRejection", "storageError"}

\* The first request is still waiting for the storage engine and a later
\* request has answered success.
C14_Witness ==
    \E r \in Requests \ {1} :
        Pending(1) /\ pc[r] = "sent" /\ res[r] = Success

(* C15: a handle is never changed once it is registered, no step of a request   *)
(* changes the Models table, and the NewsletterSubscription handle is bound to  *)
(* newsletter_subscriptions whenever it exists.                                 *)
C15_ModelsReadOnly ==
    /\ [](("NewsletterSubscription" \in Handles) =>
            CollectionOf(Models["NewsletterSubscription"]) = "newsletter_subscriptions")
    /\ [][\A h \in Handles : h \in DOMAIN Models' /\ Models'[h] = Models[h]]_vars
    /\ [][Started => (Models' = Models /\ table' = table /\ loaded' = loaded
                        /\ DOMAIN storage' = DOMAIN storage)]_vars

\* Requests of every outcome have been handled and the handle is as registered.
C15_Witness ==
    /\ Started
    /\ \E r \in Requests : pc[r] = "sent"
    /\ \E r \in Requests : pc[r] \in {"invalidParams", "corsError", "unhandledRejection"}
    /\ Models["NewsletterSubscription"] =
           getModel("NewsletterSubscription", "newsletter", "subscriptions")

(* C16: a step changes at most the list named by the request whose upsert is    *)
(* applied in it: the documents of every other list name are the same before    *)
(* and after, and no step of another kind changes any list.                     *)
C16_OtherListsUnchanged ==
    [][Started =>
          \A M \in KeysOf(Subscriptions(storage)) \cup KeysOf(Subscriptions(storage')) :
              (\A r \in Requests : UpsertStep(r) => ListName(r) # M)
              => DocsOf(Subscriptions(storage'), M) = DocsOf(Subscriptions(storage), M)]_vars

\* A second list was created after the first one, which is as it was created.
C16_Witness ==
    \E r1, r2 \in Requests :
        /\ UpsertCompleted(r1) /\ UpsertCompleted(r2)
        /\ ListName(r1) # ListName(r2)
        /\ Subscriptions(storage) =
               << [newsletterId |-> ListName(r1), subscribers |-> <<Email(r1)>>],
                  [newsletterId |-> ListName(r2), subscribers |-> <<Email(r2)>>] >>

=============================================================================
